---- MODULE Spec2Model ----
(***************************************************************************)
(* The two bonding-curve analysis scripts, bonding_curve_simulator.py and  *)
(* market_cap_analyzer.py: their pure curve functions, and the main        *)
(* sequence of each script, one action per loop iteration.                 *)
(***************************************************************************)
EXTENDS Integers, Sequences, FiniteSets, TLC

(***************************************************************************)
(* Python numbers.  Every number the two scripts compute is a float or an  *)
(* int below 2^53, where int and float arithmetic give the same values, so *)
(* a number is modelled as an IEEE-754 binary64 value: sign, a 53-bit      *)
(* significand m and an exponent e, standing for (-1)^neg * m * 2^e.  TLC's *)
(* integers are 32 bits wide, so m is kept as a little-endian sequence of  *)
(* 15-bit limbs.  exc marks the ZeroDivisionError that / raises.           *)
(***************************************************************************)
Base == 2^15
LimbBits == 15
Prec == 53

RECURSIVE NTrim(_)
NTrim(a) == IF a = <<>> \/ a[Len(a)] # 0 THEN a ELSE NTrim(SubSeq(a, 1, Len(a) - 1))

RECURSIVE NAddC(_, _, _)
NAddC(a, b, c) ==
  IF a = <<>> /\ b = <<>> THEN (IF c = 0 THEN <<>> ELSE <<c>>)
  ELSE LET x == IF a = <<>> THEN 0 ELSE Head(a)
           y == IF b = <<>> THEN 0 ELSE Head(b)
           t == x + y + c
       IN  <<t % Base>> \o NAddC(IF a = <<>> THEN a ELSE Tail(a),
                                  IF b = <<>> THEN b ELSE Tail(b), t \div Base)

NAdd(a, b) == NAddC(a, b, 0)

RECURSIVE NSubB(_, _, _)
NSubB(a, b, c) ==
  IF a = <<>> THEN <<>>
  ELSE LET y == IF b = <<>> THEN 0 ELSE Head(b)
           t == Head(a) - y - c
       IN  <<t % Base>> \o NSubB(Tail(a), IF b = <<>> THEN b ELSE Tail(b),
                                  IF t < 0 THEN 1 ELSE 0)

NSub(a, b) == NTrim(NSubB(a, b, 0))

RECURSIVE NCmpAt(_, _, _)
NCmpAt(a, b, i) ==
  IF i = 0 THEN 0
  ELSE IF a[i] < b[i] THEN -1
  ELSE IF a[i] > b[i] THEN 1
  ELSE NCmpAt(a, b, i - 1)

NCmp(a, b) ==
  IF Len(a) < Len(b) THEN -1
  ELSE IF Len(a) > Len(b) THEN 1
  ELSE NCmpAt(a, b, Len(a))

RECURSIVE NMulLimb(_, _, _)
NMulLimb(a, d, c) ==
  IF a = <<>> THEN (IF c = 0 THEN <<>> ELSE <<c>>)
  ELSE LET t == Head(a) * d + c
       IN  <<t % Base>> \o NMulLimb(Tail(a), d, t \div Base)

RECURSIVE NMul(_, _)
NMul(a, b) ==
  IF a = <<>> \/ b = <<>> THEN <<>>
  ELSE LET hi == NMul(a, Tail(b))
       IN  NAdd(NTrim(NMulLimb(a, Head(b), 0)), IF hi = <<>> THEN hi ELSE <<0>> \o hi)

NShl(a, n) ==
  IF a = <<>> THEN a
  ELSE [i \in 1..(n \div LimbBits) |-> 0] \o NMulLimb(a, 2^(n % LimbBits), 0)

NShr(a, n) ==
  LET q == n \div LimbBits
      r == n % LimbBits
      b == IF q >= Len(a) THEN <<>> ELSE SubSeq(a, q + 1, Len(a))
  IN  NTrim([i \in 1..Len(b) |->
               (b[i] \div 2^r)
               + (IF i < Len(b) THEN (b[i + 1] % 2^r) * 2^(LimbBits - r) ELSE 0)])

RECURSIVE BitLen(_)
BitLen(n) == IF n = 0 THEN 0 ELSE 1 + BitLen(n \div 2)

NBitLen(a) == IF a = <<>> THEN 0 ELSE LimbBits * (Len(a) - 1) + BitLen(a[Len(a)])

NBit(a, i) ==
  IF i \div LimbBits >= Len(a) THEN 0
  ELSE (a[i \div LimbBits + 1] \div 2^(i % LimbBits)) % 2

\* Whether the n low bits of a are all zero.
NLowZero(a, n) ==
  /\ \A i \in 1..Len(a) : i <= n \div LimbBits => a[i] = 0
  /\ n \div LimbBits < Len(a) => a[n \div LimbBits + 1] % 2^(n % LimbBits) = 0

RECURSIVE NFromInt(_)
NFromInt(n) == IF n = 0 THEN <<>> ELSE <<n % Base>> \o NFromInt(n \div Base)

\* The largest digit q with q * d <= r, from an estimate that is not too low.
RECURSIVE NDigit(_, _, _)
NDigit(r, d, q) ==
  IF NCmp(NTrim(NMulLimb(d, q, 0)), r) > 0 THEN NDigit(r, d, q - 1) ELSE q

\* An estimate of that digit from the top limbs of r and d, never too low.
NEstimate(r, d) ==
  LET hi == (IF Len(r) > Len(d) THEN r[Len(d) + 1] * Base ELSE 0)
            + (IF Len(r) >= Len(d) THEN r[Len(d)] ELSE 0)
  IN  IF hi >= Base * d[Len(d)] THEN Base - 1 ELSE hi \div d[Len(d)]

\* The quotient with the digit q put below it, and what is left of r.
NDivPut(quot, r, d, q) ==
  <<IF quot = <<>> /\ q = 0 THEN <<>> ELSE <<q>> \o quot,
    NSub(r, NTrim(NMulLimb(d, q, 0)))>>

\* One more quotient limb of r / d.
NDivStep(quot, r, d) == NDivPut(quot, r, d, NDigit(r, d, NEstimate(r, d)))

\* n more quotient limbs of r / d by long division, for qr = <<quotient so far,
\* remainder r>> with r < d and d's top limb at least Base / 2:
\* <<quotient, remainder>>.
RECURSIVE NDivLimbs(_, _, _)
NDivLimbs(qr, d, n) ==
  IF n = 0 THEN qr
  ELSE NDivLimbs(NDivStep(qr[1], IF qr[2] = <<>> THEN <<>> ELSE <<0>> \o qr[2], d),
                 d, n - 1)

Zero == [exc |-> FALSE, neg |-> FALSE, m |-> <<>>, e |-> 0]
ZeroDivisionError == [exc |-> TRUE, neg |-> FALSE, m |-> <<>>, e |-> 0]

\* m * 2^e for m of Prec bits, or of one more with its low bit zero.
Normal(neg, m, e) ==
  IF NBitLen(m) > Prec
  THEN [exc |-> FALSE, neg |-> neg, m |-> NShr(m, 1), e |-> e + 1]
  ELSE [exc |-> FALSE, neg |-> neg, m |-> m, e |-> e]

\* M * 2^e rounded off by its d low bits, for q = M shifted right by d.
RoundOff(neg, M, q, d, e, sticky) ==
  Normal(neg,
         IF NBit(M, d - 1) = 1
            /\ (sticky \/ ~NLowZero(M, d - 1) \/ NBit(q, 0) = 1)
         THEN NAdd(q, <<1>>) ELSE q,
         e + d)

\* M * 2^e rounded, for M of L bits.
RoundBits(neg, M, e, sticky, L) ==
  IF L <= Prec
  THEN [exc |-> FALSE, neg |-> neg, m |-> NShl(M, Prec - L), e |-> e - (Prec - L)]
  ELSE RoundOff(neg, M, NShr(M, L - Prec), L - Prec, e, sticky)

\* Round-to-nearest, ties-to-even, of M * 2^e (plus a little more when sticky).
Round(neg, M, e, sticky) ==
  IF M = <<>> THEN Zero ELSE RoundBits(neg, M, e, sticky, NBitLen(M))

\* float(n) of a Python int.
F(n) == Round(n < 0, NFromInt(IF n < 0 THEN -n ELSE n), 0, FALSE)

Neg(x) == IF x.exc \/ x.m = <<>> THEN x ELSE [x EXCEPT !.neg = ~x.neg]

\* big + sml for B * 2^sml.e the magnitude of big: the exact sum, rounded.
AddAligned(big, sml, B) ==
  IF big.neg = sml.neg THEN Round(big.neg, NAdd(B, sml.m), sml.e, FALSE)
  ELSE IF NCmp(B, sml.m) >= 0
  THEN Round(big.neg, NSub(B, sml.m), sml.e, FALSE)
  ELSE Round(sml.neg, NSub(sml.m, B), sml.e, FALSE)

\* big + sml for big.e >= sml.e
AddOrdered(big, sml) ==
  IF big.e - sml.e > Prec + 3 THEN big
  ELSE AddAligned(big, sml, NShl(big.m, big.e - sml.e))

\* x + y
Add(x, y) ==
  IF x.exc \/ y.exc THEN ZeroDivisionError
  ELSE IF x.m = <<>> THEN y
  ELSE IF y.m = <<>> THEN x
  ELSE AddOrdered(IF x.e >= y.e THEN x ELSE y, IF x.e >= y.e THEN y ELSE x)

\* x - y
Sub(x, y) == Add(x, Neg(y))

\* x * y
Mul(x, y) ==
  IF x.exc \/ y.exc THEN ZeroDivisionError
  ELSE Round(x.neg # y.neg, NMul(x.m, y.m), x.e + y.e, FALSE)

\* x / y from the quotient and remainder of four limbs of long division.
DivRound(x, y, qr) ==
  Round(x.neg # y.neg, qr[1], x.e - y.e - 4 * LimbBits, qr[2] # <<>>)

\* x / y for n and d the significands of x and y, d's top limb at least Base / 2.
DivLimbs(x, y, n, d) ==
  DivRound(x, y, NDivLimbs(IF NCmp(n, d) >= 0 THEN <<<<1>>, NSub(n, d)>>
                           ELSE <<<<>>, n>>, d, 4))

\* x / y with both significands shifted left by s bits.
DivShifted(x, y, s) == DivLimbs(x, y, NShl(x.m, s), NShl(y.m, s))

\* x / y
Div(x, y) ==
  IF x.exc \/ y.exc \/ y.m = <<>> THEN ZeroDivisionError
  ELSE IF x.m = <<>> THEN Zero
  ELSE DivShifted(x, y, LimbBits - BitLen(y.m[Len(y.m)]))

\* x < y
Lt(x, y) ==
  LET mag == IF x.m = <<>> THEN (IF y.m = <<>> THEN 0 ELSE -1)
             ELSE IF y.m = <<>> THEN 1
             ELSE IF x.e < y.e THEN -1
             ELSE IF x.e > y.e THEN 1
             ELSE NCmp(x.m, y.m)
  IN  IF x.neg /\ ~y.neg THEN TRUE
      ELSE IF ~x.neg /\ y.neg THEN FALSE
      ELSE IF x.neg THEN mag > 0
      ELSE mag < 0

Le(x, y) == ~Lt(y, x)

\* 2^n
TwoTo(n) == Round(FALSE, <<1>>, n, FALSE)

\* A decimal literal of the source, n/d: the double nearest to it.
Literal(n, d) == Div(F(n), F(d))

\* Whether any of the numbers xs is the ZeroDivisionError.
Raises(xs) == \E n \in DOMAIN xs : xs[n].exc

(***************************************************************************)
(* The curve functions.                                                    *)
(***************************************************************************)
\* calculate_buy_cost, had it added the amount to the supply instead of taking
\* it from it.
buy_cost_adding(virtual_sol, virtual_tokens, real_tokens, buy_amount) ==
  LET k         == Mul(virtual_sol, Add(virtual_tokens, real_tokens))
      remaining_ == Add(real_tokens, buy_amount)
      new_sol   == Div(k, Add(virtual_tokens, remaining_))
  IN  Sub(new_sol, virtual_sol)

\* calculate_buy_cost, had it left the real supply out of k.
buy_cost_virtual_k(virtual_sol, virtual_tokens, real_tokens, buy_amount) ==
  LET k         == Mul(virtual_sol, virtual_tokens)
      remaining_ == Sub(real_tokens, buy_amount)
      new_sol   == Div(k, Add(virtual_tokens, remaining_))
  IN  Sub(new_sol, virtual_sol)

\* calculate_buy_cost, had it returned new_sol itself.
buy_cost_new_sol(virtual_sol, virtual_tokens, real_tokens, buy_amount) ==
  LET k         == Mul(virtual_sol, Add(virtual_tokens, real_tokens))
      remaining_ == Sub(real_tokens, buy_amount)
  IN  Div(k, Add(virtual_tokens, remaining_))

\* calculate_buy_cost, had it divided by the remaining real tokens alone.
buy_cost_real_only(virtual_sol, virtual_tokens, real_tokens, buy_amount) ==
  LET k         == Mul(virtual_sol, Add(virtual_tokens, real_tokens))
      remaining_ == Sub(real_tokens, buy_amount)
      new_sol   == Div(k, remaining_)
  IN  Sub(new_sol, virtual_sol)

\* calculate_buy_cost, had it divided by the tokens before the purchase.
buy_cost_before(virtual_sol, virtual_tokens, real_tokens, buy_amount) ==
  LET k       == Mul(virtual_sol, Add(virtual_tokens, real_tokens))
      new_sol == Div(k, Add(virtual_tokens, real_tokens))
  IN  Sub(new_sol, virtual_sol)

calculate_buy_cost(virtual_sol, virtual_tokens, real_tokens, buy_amount) ==
  LET k         == Mul(virtual_sol, Add(virtual_tokens, real_tokens))
      remaining_ == Sub(real_tokens, buy_amount)
      new_sol   == Div(k, Add(virtual_tokens, remaining_))
  IN  Sub(new_sol, virtual_sol)

\* One call of calculate_buy_cost, with what it returned.
BuyCostCall(virtual_sol, virtual_tokens, real_tokens, buy_amount) ==
  [virtual_sol    |-> virtual_sol,
   virtual_tokens |-> virtual_tokens,
   real_tokens    |-> real_tokens,
   buy_amount     |-> buy_amount,
   result         |-> calculate_buy_cost(virtual_sol, virtual_tokens,
                                         real_tokens, buy_amount)]

\* Python's max(a, b): b when it is larger, else a.
max(a, b) ==
  IF a.exc \/ b.exc THEN ZeroDivisionError ELSE IF Lt(a, b) THEN b ELSE a

\* calculate_virtual_tokens, had it returned the value without the clamp.
virtual_tokens_unclamped(market_cap_sol, virtual_sol, total_supply) ==
  LET initial_price == Div(market_cap_sol, total_supply)
  IN  Sub(Div(virtual_sol, initial_price), total_supply)

calculate_virtual_tokens(market_cap_sol, virtual_sol, total_supply) ==
  LET initial_price   == Div(market_cap_sol, total_supply)
      virtual_tokens_ == Sub(Div(virtual_sol, initial_price), total_supply)
  IN  max(Zero, virtual_tokens_)

\* One call of calculate_virtual_tokens, with what it returned.
VirtualTokensCall(market_cap_sol, virtual_sol, total_supply) ==
  [market_cap_sol |-> market_cap_sol,
   virtual_sol    |-> virtual_sol,
   total_supply   |-> total_supply,
   result         |-> calculate_virtual_tokens(market_cap_sol, virtual_sol,
                                               total_supply)]

\* total_supply = supply = 1_000_000_000 in every function of both scripts.
supply == F(1000000000)

\* The five shares of the supply both scripts price: 0.10 0.25 0.50 0.75 0.90.
shares == <<Literal(10, 100), Literal(25, 100), Literal(50, 100),
            Literal(75, 100), Literal(90, 100)>>

\* The dictionary analyze_market_cap returns, for its market_cap_sol and its
\* call of calculate_virtual_tokens.
config_of(market_cap_usd, market_cap_sol, virtual_sol, vt) ==
  [market_cap_usd    |-> market_cap_usd,
   market_cap_sol    |-> market_cap_sol,
   virtual_sol       |-> virtual_sol,
   virtual_tokens    |-> vt.result,
   initial_price_sol |-> Div(market_cap_sol, supply),
   costs             |-> [n \in 1..5 |->
                            BuyCostCall(virtual_sol, vt.result, supply,
                                        Mul(supply, shares[n]))],
   vt                |-> vt]

\* analyze_market_cap from its market_cap_sol on.
analyze_market_cap_sol(market_cap_usd, market_cap_sol, virtual_sol) ==
  config_of(market_cap_usd, market_cap_sol, virtual_sol,
            VirtualTokensCall(market_cap_sol, virtual_sol, supply))

analyze_market_cap(market_cap_usd, sol_price_usd, virtual_sol) ==
  analyze_market_cap_sol(market_cap_usd, Div(market_cap_usd, sol_price_usd),
                         virtual_sol)

\* One point of calculate_price_curve, the n-th of num_points.
price_point(virtual_sol, virtual_tokens, real_tokens, increment, n) ==
  LET tokens_to_buy    == Mul(increment, F(n))
      k                == Mul(virtual_sol, Add(virtual_tokens, real_tokens))
      remaining_tokens == Sub(real_tokens, tokens_to_buy)
      new_total_sol    == Div(k, Add(virtual_tokens, remaining_tokens))
      sol_needed       == Sub(new_total_sol, virtual_sol)
      current_price    == Div(Add(virtual_sol, sol_needed),
                              Add(virtual_tokens, remaining_tokens))
  IN  [tokens_to_buy |-> tokens_to_buy,
       tokens_bought |-> Div(tokens_to_buy, F(1000000)),
       price         |-> current_price,
       sol_spent     |-> sol_needed]

num_points == 100

calculate_price_curve(virtual_sol, virtual_tokens, real_tokens) ==
  LET increment == Div(real_tokens, F(num_points))
  IN  [n \in 1..num_points |->
         price_point(virtual_sol, virtual_tokens, real_tokens, increment, n)]

\* What one buyer of simulate_trading_scenario prints, and the values the
\* loop body leaves in remaining and total_sol.
bought(remaining_, total_sol_, sol_amount, tokens_bought) ==
  [tokens_bought |-> tokens_bought,
   pct_of_supply |-> Mul(Div(tokens_bought, supply), F(100)),
   avg_price     |-> IF tokens_bought.exc THEN tokens_bought
                     ELSE IF Lt(Zero, tokens_bought)
                     THEN Div(sol_amount, tokens_bought) ELSE Zero,
   remaining     |-> Sub(remaining_, tokens_bought),
   total_sol     |-> Add(total_sol_, sol_amount)]

\* One buyer of simulate_trading_scenario: the loop body.
buyer(vsol, vtok, remaining_, total_sol_, sol_amount) ==
  LET k             == Mul(Add(vsol, total_sol_), Add(vtok, remaining_))
      new_sol       == Add(Add(vsol, total_sol_), sol_amount)
      new_tokens    == Div(k, new_sol)
      tokens_bought == Sub(Add(vtok, remaining_), new_tokens)
  IN  bought(remaining_, total_sol_, sol_amount, tokens_bought)

\* The share of the supply, in percent, that a budget buys: the loop body of
\* whale_attack_analysis and of whale_resistance_analysis.
whale_pct(vsol, vtok, total_supply, budget) ==
  LET k             == Mul(vsol, Add(vtok, total_supply))
      new_sol       == Add(vsol, budget)
      new_tokens    == Div(k, new_sol)
      tokens_bought == Sub(Add(vtok, total_supply), new_tokens)
  IN  Mul(Div(tokens_bought, total_supply), F(100))

(***************************************************************************)
(* The inputs the two pure functions are applied to on their own: every    *)
(* combination of a few small values.                                      *)
(***************************************************************************)
MaxSol == 2
MaxTokens == 2
MaxSupply == 2
MaxCapTenths == 13
MaxSupplyDigits == 3

\* 2^-53: an amount of Eps * supply is below the resolution of a float at supply.
Eps == TwoTo(-Prec)

\* The amounts tried on a curve, in increasing order: nothing, a sliver, half
\* the supply, all of it, and past it up to and beyond the virtual tokens.
Amounts(virtual_tokens, real_tokens) ==
  <<Zero,
    Mul(real_tokens, Eps),
    Div(real_tokens, F(2)),
    real_tokens,
    Add(real_tokens, Div(virtual_tokens, F(2))),
    Add(real_tokens, virtual_tokens),
    Add(Add(real_tokens, virtual_tokens), F(1))>>

BuyCostInputs ==
  { [virtual_sol    |-> vs,
     virtual_tokens |-> F(vt),
     real_tokens    |-> F(rt),
     amounts        |-> <<Amounts(F(vt), F(rt))[ab[1]], Amounts(F(vt), F(rt))[ab[2]]>>] :
      vs \in {Literal(n, 10) : n \in 1..MaxSol} \cup {F(n) : n \in 1..MaxSol},
      vt \in 0..MaxTokens,
      rt \in 1..MaxSupply,
      ab \in {p \in (1..7) \X (1..7) : p[1] < p[2]} }

\* virtual_sol in tenths, the market cap a tenth below it, at it and a tenth
\* above it, and supplies of 1, 10, 100, ...
VirtualTokensInputs ==
  { [market_cap_sol |-> Literal(n + d, 10),
     virtual_sol    |-> Literal(n, 10),
     total_supply   |-> F(10^z)] :
      n \in 2..MaxCapTenths, d \in {-1, 0, 1}, z \in 0..MaxSupplyDigits }

(***************************************************************************)
(* The tables of the scripts.                                              *)
(***************************************************************************)
\* print_comparison_table and plot_comparison (the names without their emoji)
scenarios ==
  <<[name |-> "Current (30/1B)",     vsol |-> F(30),  vtok |-> F(1000000000)],
    [name |-> "Option 1 (85/800M)",  vsol |-> F(85),  vtok |-> F(800000000)],
    [name |-> "Option 2 (200/600M)", vsol |-> F(200), vtok |-> F(600000000)],
    [name |-> "Option 3 (500/500M)", vsol |-> F(500), vtok |-> F(500000000)]>>

\* simulate_trading_scenario and whale_attack_analysis
scenarios2 ==
  <<[name |-> "Current (30/1B)",      vsol |-> F(30),  vtok |-> F(1000000000)],
    [name |-> "Optimized (200/600M)", vsol |-> F(200), vtok |-> F(600000000)]>>

buyers ==
  <<[name |-> "Small retail (0.5 SOL)", sol_amount |-> Literal(5, 10)],
    [name |-> "Medium retail (2 SOL)",  sol_amount |-> F(2)],
    [name |-> "Large retail (5 SOL)",   sol_amount |-> F(5)],
    [name |-> "Small whale (20 SOL)",   sol_amount |-> F(20)],
    [name |-> "Large whale (100 SOL)",  sol_amount |-> F(100)]>>

\* whale_attack_analysis
whale_budgets == <<10, 20, 50, 100, 200, 500>>

\* What whale_attack_analysis prints after its table: "even a 100 SOL whale
\* gets only ~30% of supply vs. 93% with current params".
analysis_budget == 100
analysis_optimized_pct == 30
analysis_current_pct == 93
analysis ==
  <<"Analysis:",
    "With optimized params, even a 100 SOL whale gets only ~30% of supply",
    "vs. 93% with current params!">>

\* print_market_cap_comparison and whale_resistance_analysis
presets ==
  <<[name |-> "Micro Launch",   market_cap |-> 4600],
    [name |-> "Small Launch",   market_cap |-> 10000],
    [name |-> "Medium Launch",  market_cap |-> 25000],
    [name |-> "Large Launch",   market_cap |-> 50000],
    [name |-> "Premium Launch", market_cap |-> 100000]>>

\* whale_resistance_analysis
resistance_budgets == <<10, 20, 50, 100, 200>>

\* analyze_market_cap's defaults, and print_market_cap_comparison's sol_price
sol_price_usd_default == 200
virtual_sol_default == 200

\* funding_goal_calculator: target_sol and sell_pct (in hundredths)
funding_scenarios ==
  <<[target_sol |-> 85,  sell_pct |-> Literal(50, 100)],
    [target_sol |-> 50,  sell_pct |-> Literal(50, 100)],
    [target_sol |-> 150, sell_pct |-> Literal(50, 100)],
    [target_sol |-> 85,  sell_pct |-> Literal(30, 100)]>>

\* sol_price_sensitivity
target_market_cap == 25000
sol_prices == <<100, 150, 200, 250, 300>>

(***************************************************************************)
(* The state of a run.                                                     *)
(***************************************************************************)
VARIABLES
  script,          \* what runs: one of the two scripts, or one pure function
  HAS_MATPLOTLIB,  \* whether the simulator's import of matplotlib succeeded
  args,            \* the inputs a pure function is applied to
  pc,              \* the function of the main sequence that runs next
  i, j,            \* the indices of its loops
  stdout,          \* the headings printed so far
  calls,           \* the calculate_buy_cost calls of the last step
  vt_calls,        \* the calculate_virtual_tokens call of the last step
  config,          \* the last analyze_market_cap result
  curve,           \* the last calculate_price_curve result
  scenario,        \* simulate_trading_scenario's scenario: name, vsol, vtok
  remaining,       \* simulate_trading_scenario's remaining
  total_sol,       \* simulate_trading_scenario's total_sol
  results,         \* the numbers the last step printed
  plt              \* the calls made on matplotlib.pyplot

vars == <<script, HAS_MATPLOTLIB, args, pc, i, j, stdout, calls, vt_calls,
          config, curve, scenario, remaining, total_sol, results, plt>>

Simulator == "bonding_curve_simulator.py"
Analyzer == "market_cap_analyzer.py"

Init ==
  /\ pc = "main" /\ i = 0 /\ j = 0 /\ stdout = <<>>
  /\ calls = <<>> /\ vt_calls = <<>> /\ config = <<>> /\ curve = <<>>
  /\ scenario = <<>> /\ remaining = Zero /\ total_sol = Zero /\ results = <<>> /\ plt = <<>>
  /\ \/ script = Simulator /\ HAS_MATPLOTLIB \in BOOLEAN /\ args = <<>>
     \/ script = Analyzer /\ HAS_MATPLOTLIB = FALSE /\ args = <<>>
     \/ script = "calculate_buy_cost" /\ HAS_MATPLOTLIB = FALSE
        /\ args \in BuyCostInputs
     \/ script = "calculate_virtual_tokens" /\ HAS_MATPLOTLIB = FALSE
        /\ args \in VirtualTokensInputs

\* An uncaught exception ends the script with a traceback.
Traceback ==
  /\ pc' = "Traceback"
  /\ UNCHANGED <<script, HAS_MATPLOTLIB, args, i, j, calls, vt_calls, config,
                 curve, scenario, remaining, total_sol, results, plt>>

(***************************************************************************)
(* bonding_curve_simulator.py                                              *)
(***************************************************************************)
\* __main__: the banner, then the analyses in turn.
simulator_main ==
  /\ script = Simulator /\ pc = "main"
  /\ stdout' = Append(stdout, "FUNDLY BONDING CURVE SIMULATOR")
  /\ pc' = "print_comparison_table" /\ i' = 1
  /\ UNCHANGED <<script, HAS_MATPLOTLIB, args, j, calls, vt_calls, config,
                 curve, scenario, remaining, total_sol, results, plt>>

\* One scenario of print_comparison_table.
print_comparison_table ==
  /\ script = Simulator /\ pc = "print_comparison_table"
  /\ LET sc            == scenarios[i]
         initial_price == Div(sc.vsol, sc.vtok)
         sols          == [n \in 1..5 |->
                             BuyCostCall(sc.vsol, sc.vtok, supply,
                                         Mul(supply, shares[n]))]
     IN  /\ stdout' = IF i = 1
                      THEN Append(stdout, "BONDING CURVE PARAMETER COMPARISON")
                      ELSE stdout
         /\ IF initial_price.exc \/ \E n \in 1..5 : sols[n].result.exc
            THEN Traceback
            ELSE /\ calls' = sols
                 /\ results' = <<initial_price>>
                 /\ IF i < Len(scenarios)
                    THEN pc' = pc /\ i' = i + 1 /\ j' = j
                    ELSE pc' = "simulate_trading_scenario" /\ i' = 1 /\ j' = 1
                 /\ UNCHANGED <<script, HAS_MATPLOTLIB, args, vt_calls, config,
                                curve, scenario, remaining, total_sol, plt>>

\* One buyer of one scenario of simulate_trading_scenario.
simulate_trading_scenario ==
  /\ script = Simulator /\ pc = "simulate_trading_scenario"
  /\ LET sc == scenarios2[i]
         b  == buyer(sc.vsol, sc.vtok,
                     IF j = 1 THEN supply ELSE remaining,
                     IF j = 1 THEN Zero ELSE total_sol,
                     buyers[j].sol_amount)
     IN  /\ stdout' = IF i = 1 /\ j = 1
                      THEN Append(stdout, "REALISTIC TRADING SCENARIO SIMULATION")
                      ELSE stdout
         /\ IF Raises(<<b.tokens_bought, b.pct_of_supply, b.avg_price>>)
            THEN Traceback
            ELSE /\ scenario' = <<sc>>
                 /\ remaining' = b.remaining
                 /\ total_sol' = b.total_sol
                 /\ results' = <<b.tokens_bought, b.pct_of_supply>>
                 /\ IF j < Len(buyers)
                    THEN pc' = pc /\ i' = i /\ j' = j + 1
                    ELSE IF i < Len(scenarios2)
                    THEN pc' = pc /\ i' = i + 1 /\ j' = 1
                    ELSE pc' = "whale_attack_analysis" /\ i' = 1 /\ j' = 0
                 /\ UNCHANGED <<script, HAS_MATPLOTLIB, args, calls, vt_calls,
                                config, curve, plt>>

\* One budget of whale_attack_analysis, and after the last one the analysis.
whale_attack_analysis ==
  /\ script = Simulator /\ pc = "whale_attack_analysis"
  /\ LET pcts == [n \in 1..Len(scenarios2) |->
                    whale_pct(scenarios2[n].vsol, scenarios2[n].vtok, supply,
                              F(whale_budgets[i]))]
         last == i = Len(whale_budgets)
     IN  /\ stdout' = (IF i = 1
                       THEN Append(stdout, "WHALE ATTACK RESISTANCE ANALYSIS")
                       ELSE stdout)
                      \o (IF last /\ ~Raises(pcts) THEN analysis ELSE <<>>)
         /\ IF Raises(pcts)
            THEN Traceback
            ELSE /\ results' = pcts
                 /\ IF last
                    THEN pc' = "generate" /\ i' = 0
                    ELSE pc' = pc /\ i' = i + 1
                 /\ UNCHANGED <<script, HAS_MATPLOTLIB, args, j, calls, vt_calls,
                                config, curve, scenario, remaining, total_sol, plt>>

\* __main__: the heading of the charts, then plot_comparison.
simulator_generate ==
  /\ script = Simulator /\ pc = "generate"
  /\ stdout' = Append(stdout, "Generating visual comparison charts...")
  /\ pc' = "plot_comparison"
  /\ UNCHANGED <<script, HAS_MATPLOTLIB, args, i, j, calls, vt_calls, config,
                 curve, scenario, remaining, total_sol, results, plt>>

\* The percentages of plot_comparison's second chart: i * 0.95 for i in range(101).
percentages == [n \in 1..101 |-> Mul(F(n - 1), Literal(95, 100))]

\* plot_comparison's first use of matplotlib: plt.subplots.
plot_subplots ==
  /\ stdout' = stdout
  /\ plt' = Append(plt, "subplots")
  /\ i' = 1
  /\ UNCHANGED <<script, HAS_MATPLOTLIB, args, pc, j, calls, vt_calls, config,
                 curve, scenario, remaining, total_sol, results>>

\* plot_comparison without its guard: where the import failed, plt is an unbound
\* name and its first use raises NameError.
plot_unguarded ==
  IF HAS_MATPLOTLIB THEN plot_subplots ELSE stdout' = stdout /\ Traceback

\* plot_comparison's guard: without matplotlib, a warning and a return.
plot_guard ==
  IF ~HAS_MATPLOTLIB
  THEN /\ stdout' = Append(stdout, "matplotlib not installed. Skipping chart generation.")
       /\ pc' = "complete"
       /\ UNCHANGED <<script, HAS_MATPLOTLIB, args, i, j, calls, vt_calls,
                      config, curve, scenario, remaining, total_sol, results, plt>>
  ELSE plot_subplots

\* plot_comparison: the guard, then one scenario of the first chart or of the
\* second, then the saving of the figure.
plot_comparison ==
  /\ script = Simulator /\ pc = "plot_comparison"
  /\ IF i = 0
     THEN plot_guard
     ELSE IF i <= Len(scenarios)
     THEN LET sc == scenarios[i]
              c  == calculate_price_curve(sc.vsol, sc.vtok, supply)
          IN  /\ stdout' = stdout
              /\ IF \E n \in 1..num_points :
                      Raises(<<c[n].tokens_bought, c[n].price, c[n].sol_spent>>)
                 THEN Traceback
                 ELSE /\ curve' = c
                      /\ plt' = Append(plt, "ax1.plot")
                      /\ i' = i + 1
                      /\ UNCHANGED <<script, HAS_MATPLOTLIB, args, pc, j, calls,
                                     vt_calls, config, scenario, remaining, total_sol, results>>
     ELSE IF i <= 2 * Len(scenarios)
     THEN LET sc    == scenarios[i - Len(scenarios)]
              costs == [n \in 1..101 |->
                          BuyCostCall(sc.vsol, sc.vtok, supply,
                                      Div(Mul(supply, percentages[n]), F(100)))]
          IN  /\ stdout' = stdout
              /\ IF \E n \in 1..101 : costs[n].result.exc
                 THEN Traceback
                 ELSE /\ calls' = costs
                      /\ plt' = Append(plt, "ax2.plot")
                      /\ i' = i + 1
                      /\ UNCHANGED <<script, HAS_MATPLOTLIB, args, pc, j, vt_calls,
                                     config, curve, scenario, remaining, total_sol, results>>
     ELSE /\ plt' = plt \o <<"savefig", "show">>
          /\ stdout' = Append(stdout, "Chart saved as 'bonding_curve_comparison.png'")
          /\ pc' = "complete"
          /\ UNCHANGED <<script, HAS_MATPLOTLIB, args, i, j, calls, vt_calls,
                         config, curve, scenario, remaining, total_sol, results>>

\* __main__: the closing lines.
simulator_complete ==
  /\ script = Simulator /\ pc = "complete"
  /\ stdout' = Append(stdout, "Analysis complete!")
  /\ pc' = "done"
  /\ UNCHANGED <<script, HAS_MATPLOTLIB, args, i, j, calls, vt_calls, config,
                 curve, scenario, remaining, total_sol, results, plt>>

(***************************************************************************)
(* market_cap_analyzer.py                                                  *)
(***************************************************************************)
\* __main__: the banner, then the analyses in turn.
analyzer_main ==
  /\ script = Analyzer /\ pc = "main"
  /\ stdout' = Append(stdout, "FUNDLY MARKET CAP LAUNCH ANALYZER")
  /\ pc' = "print_market_cap_comparison" /\ i' = 1
  /\ UNCHANGED <<script, HAS_MATPLOTLIB, args, j, calls, vt_calls, config,
                 curve, scenario, remaining, total_sol, results, plt>>

\* What a step that called analyze_market_cap leaves behind.
Analyzed(c) ==
  /\ config' = <<c>>
  /\ calls' = c.costs
  /\ vt_calls' = <<c.vt>>

\* Whether analyze_market_cap raised.
AnalyzeRaises(c) ==
  \/ Raises(<<c.market_cap_sol, c.virtual_tokens, c.initial_price_sol>>)
  \/ \E n \in 1..5 : c.costs[n].result.exc

\* One preset of print_market_cap_comparison.
print_market_cap_comparison ==
  /\ script = Analyzer /\ pc = "print_market_cap_comparison"
  /\ LET c == analyze_market_cap(F(presets[i].market_cap),
                                 F(sol_price_usd_default), F(virtual_sol_default))
     IN  /\ stdout' = IF i = 1 THEN Append(stdout, "MARKET CAP LAUNCH ANALYZER")
                      ELSE stdout
         /\ IF AnalyzeRaises(c)
            THEN Traceback
            ELSE /\ Analyzed(c)
                 /\ results' = <<c.initial_price_sol, c.virtual_tokens>>
                 /\ IF i < Len(presets)
                    THEN pc' = pc /\ i' = i + 1 /\ j' = j
                    ELSE pc' = "whale_resistance_analysis" /\ i' = 1 /\ j' = 1
                 /\ UNCHANGED <<script, HAS_MATPLOTLIB, args, curve, scenario, remaining,
                                total_sol, plt>>

\* One preset of one budget of whale_resistance_analysis.
whale_resistance_analysis ==
  /\ script = Analyzer /\ pc = "whale_resistance_analysis"
  /\ LET c   == analyze_market_cap(F(presets[j].market_cap),
                                   F(sol_price_usd_default), F(virtual_sol_default))
         pct == whale_pct(c.virtual_sol, c.virtual_tokens, supply,
                          F(resistance_budgets[i]))
     IN  /\ stdout' = IF i = 1 /\ j = 1
                      THEN Append(stdout, "WHALE RESISTANCE ANALYSIS")
                      ELSE stdout
         /\ IF AnalyzeRaises(c) \/ pct.exc
            THEN Traceback
            ELSE /\ Analyzed(c)
                 /\ results' = <<pct>>
                 /\ IF j < Len(presets)
                    THEN pc' = pc /\ i' = i /\ j' = j + 1
                    ELSE IF i < Len(resistance_budgets)
                    THEN pc' = pc /\ i' = i + 1 /\ j' = 1
                    ELSE pc' = "time_estimation" /\ i' = 0 /\ j' = 0
                 /\ UNCHANGED <<script, HAS_MATPLOTLIB, args, curve, scenario, remaining,
                                total_sol, plt>>

\* time_estimation prints a fixed table.
time_estimation ==
  /\ script = Analyzer /\ pc = "time_estimation"
  /\ stdout' = Append(stdout, "ESTIMATED TIME TO COMPLETE")
  /\ pc' = "funding_goal_calculator" /\ i' = 1
  /\ UNCHANGED <<script, HAS_MATPLOTLIB, args, j, calls, vt_calls, config,
                 curve, scenario, remaining, total_sol, results, plt>>

\* One scenario of funding_goal_calculator.
funding_goal_calculator ==
  /\ script = Analyzer /\ pc = "funding_goal_calculator"
  /\ LET sc == funding_scenarios[i]
         implied_market_cap_sol == Mul(Div(F(sc.target_sol), sc.sell_pct), F(2))
         implied_market_cap_usd == Mul(implied_market_cap_sol, F(200))
         shown == <<Mul(sc.sell_pct, F(100)), Div(implied_market_cap_usd, F(1000))>>
     IN  /\ stdout' = IF i = 1 THEN Append(stdout, "FUNDING GOAL CALCULATOR")
                      ELSE stdout
         /\ IF Raises(shown)
            THEN Traceback
            ELSE /\ results' = shown
                 /\ IF i < Len(funding_scenarios)
                    THEN pc' = pc /\ i' = i + 1
                    ELSE pc' = "recommendation_engine" /\ i' = 0
                 /\ UNCHANGED <<script, HAS_MATPLOTLIB, args, j, calls, vt_calls,
                                config, curve, scenario, remaining, total_sol, plt>>

\* recommendation_engine prints a fixed list.
recommendation_engine ==
  /\ script = Analyzer /\ pc = "recommendation_engine"
  /\ stdout' = Append(stdout, "MARKET CAP RECOMMENDATION ENGINE")
  /\ pc' = "sol_price_sensitivity" /\ i' = 1
  /\ UNCHANGED <<script, HAS_MATPLOTLIB, args, j, calls, vt_calls, config,
                 curve, scenario, remaining, total_sol, results, plt>>

\* One SOL price of sol_price_sensitivity, and after the last one its closing line.
sol_price_sensitivity ==
  /\ script = Analyzer /\ pc = "sol_price_sensitivity"
  /\ LET c    == analyze_market_cap(F(target_market_cap), F(sol_prices[i]),
                                    F(virtual_sol_default))
         last == i = Len(sol_prices)
     IN  /\ stdout' = (IF i = 1 THEN Append(stdout, "SOL PRICE SENSITIVITY ANALYSIS")
                       ELSE stdout)
                      \o (IF last /\ ~AnalyzeRaises(c)
                          THEN <<"The system auto-adjusts virtual tokens to maintain USD market cap">>
                          ELSE <<>>)
         /\ IF AnalyzeRaises(c)
            THEN Traceback
            ELSE /\ Analyzed(c)
                 /\ results' = <<c.market_cap_sol, c.virtual_tokens, c.initial_price_sol>>
                 /\ IF last
                    THEN pc' = "complete" /\ i' = 0
                    ELSE pc' = pc /\ i' = i + 1
                 /\ UNCHANGED <<script, HAS_MATPLOTLIB, args, j, curve, scenario, remaining,
                                total_sol, plt>>

\* __main__: the closing lines.
analyzer_complete ==
  /\ script = Analyzer /\ pc = "complete"
  /\ stdout' = Append(stdout, "Analysis Complete!")
  /\ pc' = "done"
  /\ UNCHANGED <<script, HAS_MATPLOTLIB, args, i, j, calls, vt_calls, config,
                 curve, scenario, remaining, total_sol, results, plt>>

(***************************************************************************)
(* The pure functions on their own.                                        *)
(***************************************************************************)
\* calculate_buy_cost on the next amount of args, on the curve of args.
apply_calculate_buy_cost ==
  /\ script = "calculate_buy_cost" /\ pc = "main"
  /\ calls' = Append(calls, BuyCostCall(args.virtual_sol, args.virtual_tokens,
                                        args.real_tokens,
                                        args.amounts[Len(calls) + 1]))
  /\ pc' = IF Len(calls) + 1 = Len(args.amounts) THEN "done" ELSE pc
  /\ UNCHANGED <<script, HAS_MATPLOTLIB, args, i, j, stdout, vt_calls, config,
                 curve, scenario, remaining, total_sol, results, plt>>

\* calculate_virtual_tokens on args.
apply_calculate_virtual_tokens ==
  /\ script = "calculate_virtual_tokens" /\ pc = "main"
  /\ vt_calls' = <<VirtualTokensCall(args.market_cap_sol, args.virtual_sol,
                                     args.total_supply)>>
  /\ pc' = "done"
  /\ UNCHANGED <<script, HAS_MATPLOTLIB, args, i, j, stdout, calls, config,
                 curve, scenario, remaining, total_sol, results, plt>>

Next ==
  \/ simulator_main
  \/ print_comparison_table
  \/ simulate_trading_scenario
  \/ whale_attack_analysis
  \/ simulator_generate
  \/ plot_comparison
  \/ simulator_complete
  \/ analyzer_main
  \/ print_market_cap_comparison
  \/ whale_resistance_analysis
  \/ time_estimation
  \/ funding_goal_calculator
  \/ recommendation_engine
  \/ sol_price_sensitivity
  \/ analyzer_complete
  \/ apply_calculate_buy_cost
  \/ apply_calculate_virtual_tokens

Spec == Init /\ [][Next]_vars

\* A script is running until it ends or an uncaught exception ends it.
Running == pc \notin {"done", "Traceback"}

\* A script is one sequential process: while it is running it has a next
\* step, and the interpreter takes it.  This is weak fairness of Next,
\* WF_vars(Next) = []<><<Next>>_vars \/ []<>~ENABLED <<Next>>_vars, with
\* ENABLED <<Next>>_vars written as what it is here, Running.
FairSpec == Spec /\ ([]<><<Next>>_vars \/ []<>~Running)

(***************************************************************************)
(* The claims.  The formulas read the calls a step has made (calls,        *)
(* vt_calls), what it returned (config, curve, results) and the loop's     *)
(* state (scenario, remaining, total_sol).                                 *)
(***************************************************************************)
\* x > 0
Positive(x) == ~x.exc /\ Lt(Zero, x)

\* |x|
Abs(x) == IF x.neg THEN Neg(x) ELSE x

\* Whether x is a whole number.
IsWhole(x) == ~x.exc /\ (x.e >= 0 \/ NLowZero(x.m, -x.e))

\* |x - y| <= tol * |y|
Near(x, y, tol) ==
  ~x.exc /\ ~y.exc /\ Le(Abs(Sub(x, y)), Mul(tol, Abs(y)))

\* The relative error left by a few roundings of a float: 2^-50.
Rounding == TwoTo(-50)

\* The parameters of a calculate_buy_cost call are all > 0.
AllPositive(c) ==
  Positive(c.virtual_sol) /\ Positive(c.virtual_tokens) /\ Positive(c.real_tokens)

\* Two calculate_buy_cost calls on the same curve.
SameCurve(c, d) ==
  /\ c.virtual_sol = d.virtual_sol
  /\ c.virtual_tokens = d.virtual_tokens
  /\ c.real_tokens = d.real_tokens

\* Two calls on one curve with all parameters > 0, for amounts
\* 0 <= a < b <= supply.
Ordered(c, d) ==
  /\ SameCurve(c, d) /\ AllPositive(c)
  /\ Le(Zero, c.buy_amount)
  /\ Lt(c.buy_amount, d.buy_amount)
  /\ Le(d.buy_amount, d.real_tokens)

\* C1 as stated: for virtual_sol, virtual_tokens, supply > 0 and amounts
\* 0 <= a < b <= supply, calculate_buy_cost(a) < calculate_buy_cost(b).
C1_CostStrictlyIncreases ==
  \A m, n \in DOMAIN calls :
    Ordered(calls[m], calls[n])
      => /\ ~calls[m].result.exc /\ ~calls[n].result.exc
         /\ Lt(calls[m].result, calls[n].result)

\* C1 as amended: for virtual_sol, virtual_tokens, supply > 0 and amounts
\* 0 <= a < b <= supply, calculate_buy_cost(a) <= calculate_buy_cost(b): the
\* cost never decreases (two amounts closer than a float can tell apart cost
\* the same).
C1_CostNeverDecreases ==
  \A m, n \in DOMAIN calls :
    Ordered(calls[m], calls[n])
      => /\ ~calls[m].result.exc /\ ~calls[n].result.exc
         /\ Le(calls[m].result, calls[n].result)

\* calculate_buy_cost was applied to two amounts a < b of one curve, and the
\* second cost more.
C1_Witness ==
  /\ script = "calculate_buy_cost" /\ pc = "done"
  /\ Ordered(calls[1], calls[2])
  /\ Lt(calls[1].result, calls[2].result)

\* A purchase of nothing on a curve with virtual_sol > 0 and
\* virtual_tokens + supply > 0.
ZeroBuy(c) ==
  /\ Positive(c.virtual_sol)
  /\ Positive(Add(c.virtual_tokens, c.real_tokens))
  /\ c.buy_amount = Zero

\* The parameters are whole numbers with k below 2^53: k is computed exactly.
WholeCurve(c) ==
  /\ IsWhole(c.virtual_sol) /\ IsWhole(c.virtual_tokens) /\ IsWhole(c.real_tokens)
  /\ Lt(Mul(c.virtual_sol, Add(c.virtual_tokens, c.real_tokens)), TwoTo(Prec))

\* C2 as stated: with virtual_sol > 0 and virtual_tokens + supply > 0,
\* calculate_buy_cost(virtual_sol, virtual_tokens, supply, 0) == 0.
C2_ZeroBuyCostsZero ==
  \A n \in DOMAIN calls : ZeroBuy(calls[n]) => calls[n].result = Zero

\* C2 as amended: with virtual_sol > 0 and virtual_tokens + supply > 0, buying
\* zero tokens costs zero up to rounding, |cost| <= 2^-51 * virtual_sol, and
\* exactly zero when the parameters are whole numbers with k < 2^53.
C2_ZeroBuyCostsRounding ==
  \A n \in DOMAIN calls :
    ZeroBuy(calls[n])
      => /\ ~calls[n].result.exc
         /\ Le(Abs(calls[n].result), Mul(TwoTo(-51), calls[n].virtual_sol))
         /\ WholeCurve(calls[n]) => calls[n].result = Zero

\* calculate_buy_cost was applied to an amount of zero and returned a cost
\* that is not zero.
C2_Witness ==
  \E n \in DOMAIN calls :
    ZeroBuy(calls[n]) /\ ~calls[n].result.exc /\ calls[n].result # Zero

\* C3: the virtual_tokens that calculate_virtual_tokens returns give a curve
\* whose spot price at zero tokens sold, virtual_sol / (virtual_tokens +
\* total_supply), is the target initial price market_cap_sol / total_supply
\* (within floating-point tolerance), for every positive input and for every
\* configuration analyze_market_cap returns: its initial_price_sol is the
\* curve's initial price.
C3_RoundTrip ==
  /\ \A n \in DOMAIN vt_calls :
       (/\ Positive(vt_calls[n].market_cap_sol)
        /\ Positive(vt_calls[n].virtual_sol)
        /\ Positive(vt_calls[n].total_supply))
         => Near(Div(vt_calls[n].virtual_sol,
                     Add(vt_calls[n].result, vt_calls[n].total_supply)),
                 Div(vt_calls[n].market_cap_sol, vt_calls[n].total_supply),
                 Rounding)
  /\ \A n \in DOMAIN config :
       Near(Div(config[n].virtual_sol, Add(config[n].virtual_tokens, supply)),
            config[n].initial_price_sol, Rounding)

\* The call of C4: virtual_sol = 30, virtual_tokens = 1e9, supply = 1e9 and a
\* buy of 1e8 tokens.
C4_Call(c) ==
  /\ c.virtual_sol = F(30)
  /\ c.virtual_tokens = F(1000000000)
  /\ c.real_tokens = F(1000000000)
  /\ c.buy_amount = F(100000000)

\* k / (virtual_tokens + 9e8) - 30 with k = 30 * 2e9
C4_Formula ==
  Sub(Div(Mul(F(30), F(2000000000)), Add(F(1000000000), F(900000000))), F(30))

\* C4 as stated: that call returns k / (virtual_tokens + 9e8) - 30 with
\* k = 30 * 2e9, approximately 1.666 SOL (5/3).
C4_CostIsFiveThirds ==
  \A n \in DOMAIN calls :
    C4_Call(calls[n])
      => /\ calls[n].result = C4_Formula
         /\ Near(calls[n].result, Div(F(5), F(3)), Literal(1, 1000))

\* C4 as amended: that call returns k / (virtual_tokens + 9e8) - 30 with
\* k = 30 * 2e9, approximately 1.5789 SOL (30/19).
C4_CostIsThirtyNineteenths ==
  \A n \in DOMAIN calls :
    C4_Call(calls[n])
      => /\ calls[n].result = C4_Formula
         /\ Near(calls[n].result, Div(F(30), F(19)), Literal(1, 1000))

\* print_comparison_table has priced 10% of the supply on the current curve.
C4_Witness ==
  /\ script = Simulator
  /\ \E n \in DOMAIN calls : C4_Call(calls[n]) /\ ~calls[n].result.exc

\* What calculate_buy_cost divides k by.
Denominator(c) == Add(c.virtual_tokens, Sub(c.real_tokens, c.buy_amount))

\* C5 as stated: with all parameters > 0, calculate_buy_cost returns a value
\* for 0 <= amount < supply and fails, by a division by zero, exactly for
\* amount >= supply.
C5_FailsFromFullSupply ==
  \A n \in DOMAIN calls :
    (AllPositive(calls[n]) /\ Le(Zero, calls[n].buy_amount))
      => (calls[n].result.exc <=> Le(calls[n].real_tokens, calls[n].buy_amount))

\* C5 as amended: with all parameters > 0, calculate_buy_cost returns a value
\* for 0 <= amount <= supply, 100% of the supply included; its only failure is
\* the division by zero, raised exactly when virtual_tokens + (supply - amount)
\* is zero, that is at amount = supply + virtual_tokens.
C5_FailsAtAllTokens ==
  \A n \in DOMAIN calls :
    (AllPositive(calls[n]) /\ Le(Zero, calls[n].buy_amount))
      => /\ Le(calls[n].buy_amount, calls[n].real_tokens) => ~calls[n].result.exc
         /\ calls[n].result.exc <=> Denominator(calls[n]) = Zero

\* calculate_buy_cost was applied to 100% of the supply, and returned a value,
\* and to the supply with the virtual tokens, and raised.
C5_Witness ==
  /\ script = "calculate_buy_cost" /\ pc = "done"
  /\ AllPositive(calls[1]) /\ SameCurve(calls[1], calls[2])
  /\ calls[1].buy_amount = calls[1].real_tokens /\ ~calls[1].result.exc
  /\ calls[2].buy_amount = Add(calls[2].real_tokens, calls[2].virtual_tokens)
  /\ calls[2].result.exc

\* The inputs of a calculate_virtual_tokens call are all > 0.
PositiveInputs(c) ==
  Positive(c.market_cap_sol) /\ Positive(c.virtual_sol) /\ Positive(c.total_supply)

\* virtual_sol / (market_cap_sol / total_supply) - total_supply
Unclamped(c) ==
  Sub(Div(c.virtual_sol, Div(c.market_cap_sol, c.total_supply)), c.total_supply)

\* The result is max(0, unclamped value): never negative, the unclamped value
\* whenever that is >= 0, and 0 exactly when it is <= 0.
Clamped(c) ==
  /\ ~c.result.exc /\ Le(Zero, c.result)
  /\ Le(Zero, Unclamped(c)) => c.result = Unclamped(c)
  /\ c.result = Zero <=> Le(Unclamped(c), Zero)

\* C6 as stated: for positive inputs calculate_virtual_tokens returns
\* max(0, unclamped value), and the result is 0 exactly when
\* market_cap_sol >= virtual_sol.
C6_ZeroFromVirtualSol ==
  \A n \in DOMAIN vt_calls :
    PositiveInputs(vt_calls[n])
      => /\ Clamped(vt_calls[n])
         /\ vt_calls[n].result = Zero
              <=> Le(vt_calls[n].virtual_sol, vt_calls[n].market_cap_sol)

\* C6 as amended: for positive inputs calculate_virtual_tokens returns
\* max(0, unclamped value); the result is 0 when market_cap_sol >=
\* virtual_sol * (1 + 2^-50) and positive when market_cap_sol <=
\* virtual_sol * (1 - 2^-50); in between, at market_cap_sol = virtual_sol,
\* rounding decides.
C6_ZeroAboveVirtualSol ==
  \A n \in DOMAIN vt_calls :
    PositiveInputs(vt_calls[n])
      => /\ Clamped(vt_calls[n])
         /\ Le(Mul(vt_calls[n].virtual_sol, Add(F(1), Rounding)),
               vt_calls[n].market_cap_sol)
              => vt_calls[n].result = Zero
         /\ Le(vt_calls[n].market_cap_sol,
               Mul(vt_calls[n].virtual_sol, Sub(F(1), Rounding)))
              => Positive(vt_calls[n].result)

\* calculate_virtual_tokens was applied to a market cap of virtual_sol, and
\* to a larger one, for which it returned 0.
C6_Witness ==
  \E n \in DOMAIN vt_calls :
    /\ script = "calculate_virtual_tokens"
    /\ PositiveInputs(vt_calls[n])
    /\ Lt(vt_calls[n].virtual_sol, vt_calls[n].market_cap_sol)
    /\ vt_calls[n].result = Zero

\* C7: every parameter set the scripts pass to calculate_buy_cost or to the
\* whale percentage (the simulator's scenarios, analyze_market_cap's
\* configurations) has virtual_sol > 0, virtual_tokens > 0 and supply > 0.
C7_ParametersPositive ==
  script \in {Simulator, Analyzer}
    => /\ \A n \in DOMAIN calls : AllPositive(calls[n])
       /\ \A n \in DOMAIN config :
            Positive(config[n].virtual_sol) /\ Positive(config[n].virtual_tokens)
       /\ \A n \in DOMAIN scenario :
            Positive(scenario[n].vsol) /\ Positive(scenario[n].vtok)

\* The simulator runs without matplotlib.
NoMatplotlib == script = Simulator /\ ~HAS_MATPLOTLIB

\* What the simulator has printed at its end when matplotlib is absent: every
\* step's heading in order, the warning, the final line.
DegradedOutput ==
  <<"FUNDLY BONDING CURVE SIMULATOR",
    "BONDING CURVE PARAMETER COMPARISON",
    "REALISTIC TRADING SCENARIO SIMULATION",
    "WHALE ATTACK RESISTANCE ANALYSIS">>
  \o analysis
  \o <<"Generating visual comparison charts...",
       "matplotlib not installed. Skipping chart generation.",
       "Analysis complete!">>

\* C8: without matplotlib the simulator never raises and never uses plt,
\* plot_comparison prints its warning, and the main sequence runs every step
\* in order and reaches the final "Analysis complete!".
C8_DegradesGracefully ==
  /\ [](NoMatplotlib
          => /\ pc # "Traceback"
             /\ plt = <<>>
             /\ pc = "done" => stdout = DegradedOutput)
  /\ NoMatplotlib ~> (pc = "done")

\* The simulator has ended without matplotlib.
C8_Witness == NoMatplotlib /\ pc = "done" /\ stdout = DegradedOutput /\ plt = <<>>

\* A purchase the curve can serve: an amount >= 0 that leaves tokens in the
\* pool.
Served(c) ==
  /\ Positive(c.virtual_sol)
  /\ Le(Zero, c.buy_amount)
  /\ Positive(Denominator(c))

\* k = virtual_sol * (virtual_tokens + supply)
ConstantProduct(c) == Mul(c.virtual_sol, Add(c.virtual_tokens, c.real_tokens))

\* C9 as stated: after calculate_buy_cost returns cost for buy_amount,
\* (virtual_sol + cost) * (virtual_tokens + supply - buy_amount) == k, and
\* after each buyer of simulate_trading_scenario
\* (vsol + total_sol) * (vtok + remaining) == the scenario's initial k.
C9_ProductIsK ==
  /\ \A n \in DOMAIN calls :
       Served(calls[n])
         => Mul(Add(calls[n].virtual_sol, calls[n].result),
                Sub(Add(calls[n].virtual_tokens, calls[n].real_tokens),
                    calls[n].buy_amount))
            = ConstantProduct(calls[n])
  /\ \A n \in DOMAIN scenario :
       Mul(Add(scenario[n].vsol, total_sol), Add(scenario[n].vtok, remaining))
       = Mul(scenario[n].vsol, Add(scenario[n].vtok, supply))

\* C9 as amended: the product is k up to rounding.  After calculate_buy_cost
\* returns cost for an amount >= 0 that leaves tokens in the pool,
\* (virtual_sol + cost) * (virtual_tokens + (supply - buy_amount)) is within
\* 2^-50 * k of k, and after each buyer of simulate_trading_scenario
\* (vsol + total_sol) * (vtok + remaining) is within 2^-50 * k of the
\* scenario's initial k.
C9_ProductNearK ==
  /\ \A n \in DOMAIN calls :
       Served(calls[n])
         => Near(Mul(Add(calls[n].virtual_sol, calls[n].result),
                     Denominator(calls[n])),
                 ConstantProduct(calls[n]), Rounding)
  /\ \A n \in DOMAIN scenario :
       Near(Mul(Add(scenario[n].vsol, total_sol), Add(scenario[n].vtok, remaining)),
            Mul(scenario[n].vsol, Add(scenario[n].vtok, supply)), Rounding)

\* A buyer of simulate_trading_scenario has bought, and the product is no
\* longer the float k.
C9_Witness ==
  \E n \in DOMAIN scenario :
    /\ Lt(Zero, total_sol)
    /\ Mul(Add(scenario[n].vsol, total_sol), Add(scenario[n].vtok, remaining))
       # Mul(scenario[n].vsol, Add(scenario[n].vtok, supply))

\* |x - pct| <= 5
About(x, pct) == ~x.exc /\ Le(Abs(Sub(x, F(pct))), F(5))

\* C10: in whale_attack_analysis the share of the supply computed for the
\* 100 SOL budget is about 30% under the optimized parameters and about 93%
\* under the current ones, as the analysis it prints says.
C10_WhaleShareAsPrinted ==
  (/\ script = Simulator /\ pc = "whale_attack_analysis" /\ i > 1
   /\ whale_budgets[i - 1] = analysis_budget)
    => /\ About(results[1], analysis_current_pct)
       /\ About(results[2], analysis_optimized_pct)

\* 0 <= pct <= 100
InSupply(pct) == ~pct.exc /\ Le(Zero, pct) /\ Le(pct, F(100))

\* After every buyer of simulate_trading_scenario, 0 <= remaining <= supply.
RemainingInSupply ==
  \A n \in DOMAIN scenario :
    ~remaining.exc /\ Le(Zero, remaining) /\ Le(remaining, supply)

\* A budget of whale_attack_analysis has been computed: results holds its
\* percentage under each parameter set.
WhaleAttackComputed ==
  /\ script = Simulator
  /\ (pc = "whale_attack_analysis" /\ i > 1) \/ pc = "generate"

\* A budget and preset of whale_resistance_analysis has been computed: results
\* holds its percentage.
WhaleResistanceComputed ==
  /\ script = Analyzer
  /\ (pc = "whale_resistance_analysis" /\ (i > 1 \/ j > 1)) \/ pc = "time_estimation"

\* C11: a purchase never sells more than the real token supply.  After every
\* buyer of simulate_trading_scenario, in every scenario, 0 <= remaining <=
\* supply; and in whale_attack_analysis and whale_resistance_analysis, for
\* every budget and parameter set, 0 <= tokens_bought <= supply: the
\* percentage of the supply that is reported is between 0 and 100.
C11_NeverOversells ==
  /\ RemainingInSupply
  /\ WhaleAttackComputed => \A n \in DOMAIN results : InSupply(results[n])
  /\ WhaleResistanceComputed => \A n \in DOMAIN results : InSupply(results[n])

====
